---- MODULE Spec2Model ----
(***************************************************************************)
(* MCP gateway: the MCP-server catalog (repository), the in-memory         *)
(* registry of the MCP service and the request handlers that compose,      *)
(* update, activate, deactivate, delete, discover and invoke servers.      *)
(*                                                                         *)
(* Every inbound request is served by a worker (gin runs one goroutine per *)
(* request).  A handler is a sequence of steps; each step is one call into *)
(* the repository or the registry, which is atomic because it runs under   *)
(* the repository's or the service's lock (or is one SQL statement).       *)
(* Between two steps of a handler, steps of other workers may interleave.  *)
(***************************************************************************)
EXTENDS Integers, Sequences, FiniteSets, TLC

-----------------------------------------------------------------------------
(* Bounds of the model *)

\* number of server ids the repository may ever allocate
MaxServers == 2
\* highest version a server record may reach
MaxVersion == 2

Workers == {"w1", "w2"}
ServerIds == 1 .. MaxServers
Names == {"x", "y"}
ToolNames == {"get-user", "get-weather"}
Backends == {"memory", "pg"}

-----------------------------------------------------------------------------
(* Values *)

NoServer ==
    [id |-> 0, name |-> "", status |-> "", tools |-> << >>, allow |-> {},
     version |-> 0]

\* the two example interfaces the server seeds its HTTP-interface store with
SeedInterfaces ==
    [i \in {1, 2} |->
        IF i = 1
        THEN [id |-> 1, name |-> "get-user",
              description |-> "Get random user information",
              method |-> "GET",
              path |-> "https://randomuser.me/api/", version |-> 1]
        ELSE [id |-> 2, name |-> "get-weather",
              description |-> "Get weather information for a location",
              method |-> "GET",
              path |-> "https://api.openweathermap.org/data/2.5/weather",
              version |-> 1]]

\* httpIds lists a composition request may carry (3 is an id of no interface)
HttpIdChoices == {<<1, 2>>, <<2, 3>>}

Put(f, k, v) == [x \in (DOMAIN f) \cup {k} |-> IF x = k THEN v ELSE f[x]]
Drop(f, k) == [x \in (DOMAIN f) \ {k} |-> f[x]]
Empty == [x \in {} |-> 0]

\* createRequest not called yet, and no request built yet
NoTool ==
    [name |-> "", method |-> "", url |-> << >>, headers |-> Empty,
     body |-> Empty]
NoCall == [tool |-> NoTool, params |-> Empty, held |-> Empty]
NoBody == [kind |-> "none", text |-> << >>]
NoRequest ==
    [state |-> "none", code |-> 0, method |-> "", url |-> << >>,
     headers |-> Empty, body |-> NoBody, query |-> Empty, residual |-> Empty]

\* no endpoint given to the OpenAPI transcoder
NoTranscode == [state |-> "none", endpoint |-> << >>, spec |-> << >>,
                wire |-> << >>, parsed |-> << >>]

ToolNamesOf(server) == {server.tools[i].name : i \in DOMAIN server.tools}

VARIABLES
    backend,     \* which repositories main() wired: "memory" or "pg"
    servers,     \* MCP server records by id (r.servers / table mcp_servers)
    versions,    \* in-memory snapshots: id -> (version -> record)
    idCounter,   \* r.idCounter (ids are never reused)
    interfaces,  \* HTTP interface records by id
    registry,    \* MCPService.servers: id -> registered copy
    pc,          \* each worker's position in its handler
    loc,         \* each worker's request and handler locals
    deactivated, \* history: ids deactivated and not activated since
    mu,          \* MCPService.mu: who holds the registry's read-write lock
    call,        \* createRequest: the tool and the params it is called with
    sent,        \* createRequest: the request it built (or its error)
    httpCounter, \* ids the HTTP-interface repository has given out
    openapi      \* the transcoder: an endpoint, its export and its import

vars == <<backend, servers, versions, idCounter, interfaces, registry, pc, loc,
          deactivated, mu, call, sent, httpCounter, openapi>>

IdleLoc ==
    [op |-> "", route |-> "", id |-> 0, name |-> "", tool |-> "", path |-> "",
     ids |-> << >>, fetched |-> << >>, body |-> NoServer, srv |-> NoServer,
     gate |-> "", cold |-> FALSE, ver |-> 0,
     code |-> 0, kind |-> "", up |-> 0, url |-> "",
     spec |-> << >>, saved |-> << >>]

-----------------------------------------------------------------------------
(* Model types *)

\* a composition that allows no tool
NewMCPServerAllowNone(name, ifaces) ==
    [id |-> 0,
     name |-> name,
     status |-> "draft",
     tools |-> [i \in DOMAIN ifaces |->
                  [name |-> ifaces[i].name,
                   description |-> ifaces[i].description,
                   method |-> ifaces[i].method,
                   url |-> ifaces[i].path]],
     allow |-> {},
     version |-> 1]

\* NewMCPServerFromHTTPInterfaces: one tool per interface, every tool allowed,
\* status draft, version 1
NewMCPServerFromHTTPInterfaces(name, ifaces) ==
    [id |-> 0,
     name |-> name,
     status |-> "draft",
     tools |-> [i \in DOMAIN ifaces |->
                  [name |-> ifaces[i].name,
                   description |-> ifaces[i].description,
                   method |-> ifaces[i].method,
                   url |-> ifaces[i].path]],
     allow |-> {ifaces[i].name : i \in DOMAIN ifaces},
     version |-> 1]

\* cloneMCPServer: a field by field copy with fresh AllowTools and Tools
cloneMCPServer(server) ==
    [id |-> server.id, name |-> server.name, status |-> server.status,
     tools |-> [i \in DOMAIN server.tools |-> server.tools[i]],
     allow |-> {t : t \in server.allow},
     version |-> server.version]

-----------------------------------------------------------------------------
(* Repository reads *)

\* a lookup that falls back on the registered copy of a server
GetByIDOrRegistered(id) ==
    IF id \in DOMAIN servers THEN <<cloneMCPServer(servers[id])>>
    ELSE IF id \in DOMAIN registry THEN <<registry[id]>> ELSE << >>

\* GetByID: << >> is ErrNotFound
GetByID(id) ==
    IF id \in DOMAIN servers THEN <<cloneMCPServer(servers[id])>> ELSE << >>

GetAll == {cloneMCPServer(servers[i]) : i \in DOMAIN servers}

\* GetByName: the servers a lookup by name may return (none: ErrNotFound)
GetByName(name) == {s \in GetAll : s.name = name}

\* GetByVersion: the in-memory store returns a clone of the snapshot, the
\* relational store the current row if it is at that version (<< >> is
\* ErrNotFound)
GetByVersion(id, version) ==
    IF backend = "memory"
    THEN IF id \in DOMAIN versions /\ version \in DOMAIN versions[id]
         THEN <<cloneMCPServer(versions[id][version])>>
         ELSE << >>
    ELSE IF id \in DOMAIN servers /\ servers[id].version = version
         THEN <<cloneMCPServer(servers[id])>>
         ELSE << >>

\* GetVersions: the in-memory store lists every snapshot, the relational
\* store only the current version
GetVersions(id) ==
    IF backend = "memory"
    THEN IF id \in DOMAIN versions THEN DOMAIN versions[id] ELSE {}
    ELSE IF id \in DOMAIN servers THEN {servers[id].version} ELSE {}

\* a validation that only refuses the empty name
ValidateNameNonEmpty(name, excludeID) == name # ""

\* ValidateName: TRUE when the name is free for a server other than excludeID
ValidateName(name, excludeID) ==
    /\ name # ""
    /\ \A s \in GetAll : ~(s.name = name /\ s.id # excludeID)

-----------------------------------------------------------------------------
(* Registry *)

\* sync.RWMutex of the service: one writer or any number of readers
Free == [writer |-> "", readers |-> {}]

CanLock(m) == m.writer = "" /\ m.readers = {}
CanRLock(m) == m.writer = ""
Lock(m, w) == [m EXCEPT !.writer = w]
Unlock(m, w) == [m EXCEPT !.writer = ""]
RLock(m, w) == [m EXCEPT !.readers = @ \cup {w}]

\* a read lock that is kept until the caller returns
RUnlockDeferred(m, w) == m

RUnlock(m, w) == [m EXCEPT !.readers = @ \ {w}]

\* RegisterServer holds the write lock from its entry to its return
Registering(w) ==
    /\ CanLock(mu)
    /\ mu' = Unlock(Lock(mu, w), w)

\* a registration that keeps the entry an id already has
RegisterServerKeepFirst(reg, mcpServer) ==
    IF mcpServer.id \in DOMAIN reg THEN reg ELSE Put(reg, mcpServer.id, mcpServer)

\* a registration that leaves the registry as it is
RegisterServerSkipped(reg, mcpServer) == reg

\* RegisterServer: s.servers[mcpServer.ID] = mcpServer
RegisterServer(reg, mcpServer) == Put(reg, mcpServer.id, mcpServer)

-----------------------------------------------------------------------------
(* Handler plumbing *)

Goto(w, p, l) ==
    /\ pc' = [pc EXCEPT ![w] = p]
    /\ loc' = [loc EXCEPT ![w] = l]

\* the handler has decided its response; its locals are gone
Done(w, l, code, kind) ==
    Goto(w, "done", [l EXCEPT !.code = code, !.kind = kind,
                              !.ids = << >>, !.fetched = << >>,
                              !.body = NoServer, !.srv = NoServer])

\* the gateway after main() has built it
InitGateway ==
    /\ backend \in Backends
    /\ servers = Empty
    /\ versions = Empty
    /\ idCounter = 0
    /\ interfaces = SeedInterfaces
    /\ registry = Empty
    /\ pc = [w \in Workers |-> "idle"]
    /\ loc = [w \in Workers |-> IdleLoc]
    /\ deactivated = {}
    /\ mu = Free
    /\ httpCounter = Cardinality(DOMAIN SeedInterfaces)

Init ==
    /\ InitGateway
    /\ call = NoCall
    /\ sent = NoRequest
    /\ openapi = NoTranscode

-----------------------------------------------------------------------------
(* POST /api/mcp-servers *)

CreatesInFlight ==
    Cardinality({w \in Workers : loc[w].op = "create" /\ pc[w] # "done"})

\* CreateMCPServer up to the name validation
CreateMCPServer(w) ==
    /\ pc[w] = "idle"
    /\ idCounter + CreatesInFlight < MaxServers
    /\ \E name \in Names, ids \in HttpIdChoices :
         LET l == [IdleLoc EXCEPT !.op = "create", !.name = name, !.ids = ids]
         IN IF ValidateName(name, 0)
            THEN Goto(w, "create_fetch", l)
            ELSE Done(w, l, 400, "conflict")
    /\ UNCHANGED <<httpCounter, openapi, mu, call, sent, backend, servers, versions, idCounter, interfaces, registry,
                   deactivated>>

\* one round of the loop over req.HTTPIDs: httpRepo.GetByID
CreateFetch(w) ==
    /\ pc[w] = "create_fetch"
    /\ LET l == loc[w]
           i == Len(l.fetched) + 1
           eid == l.ids[i]
       IN IF eid \notin DOMAIN interfaces
          THEN Done(w, l, 404, "interface_not_found")
          ELSE LET l2 == [l EXCEPT !.fetched = Append(l.fetched, interfaces[eid])]
               IN Goto(w, IF i = Len(l.ids) THEN "create_persist"
                          ELSE "create_fetch", l2)
    /\ UNCHANGED <<httpCounter, openapi, mu, call, sent, backend, servers, versions, idCounter, interfaces, registry,
                   deactivated>>

\* repository Create: allocate the id, version 1, store, snapshot
RepoCreate(server) ==
    LET id == idCounter + 1
        stored == [server EXCEPT !.id = id, !.version = 1]
    IN /\ idCounter' = id
       /\ servers' = Put(servers, id, stored)
       /\ versions' = IF backend = "memory"
                      THEN Put(versions, id, Put(Empty, 1, cloneMCPServer(stored)))
                      ELSE versions

\* the composition and mcpRepo.Create
CreatePersist(w) ==
    /\ pc[w] = "create_persist"
    /\ LET l == loc[w]
           mcpServer == NewMCPServerFromHTTPInterfaces(l.name, l.fetched)
       IN /\ RepoCreate(mcpServer)
          /\ Done(w, [l EXCEPT !.id = idCounter + 1], 201, "")
    /\ UNCHANGED <<httpCounter, openapi, mu, call, sent, backend, interfaces, registry, deactivated>>

-----------------------------------------------------------------------------
(* PUT /api/mcp-servers/:id *)

\* the updates of server id that are running and, in the relational store,
\* have not selected the current version yet
UpdatesInFlight(id) ==
    Cardinality({w \in Workers :
                    /\ loc[w].op = "update" /\ loc[w].id = id
                    /\ pc[w] \notin {"done"} \cup
                           (IF backend = "pg" THEN {"upd_write"} ELSE {})})

\* request bodies a client sends: the record it read with one field edited
\* (a rename, a narrower allow list, the last tool dropped, a status)
UpdateBodies(id) ==
    IF id \notin DOMAIN servers
    THEN {[NoServer EXCEPT !.name = "x", !.status = "draft"]}
    ELSE LET s == servers[id]
         IN {[s EXCEPT !.name = n] : n \in Names \ {s.name}}
            \cup {[s EXCEPT !.allow = s.allow \ {"get-weather"}],
                  [s EXCEPT !.tools = SubSeq(s.tools, 1, Len(s.tools) - 1)],
                  [s EXCEPT !.status = "active"]}

\* UpdateMCPServer up to the read of the existing record
UpdateMCPServer(w) ==
    /\ pc[w] = "idle"
    /\ \E id \in ServerIds :
         /\ id \in DOMAIN servers =>
                servers[id].version + UpdatesInFlight(id) < MaxVersion
         /\ \E body \in UpdateBodies(id) :
              LET l == [IdleLoc EXCEPT !.op = "update", !.id = id,
                                       !.body = [body EXCEPT !.id = id]]
                  existing == GetByID(id)
              IN IF existing = << >>
                 THEN Done(w, l, 404, "not_found")
                 ELSE Goto(w, IF existing[1].name # body.name
                              THEN "upd_validate" ELSE "upd_persist", l)
    /\ UNCHANGED <<httpCounter, openapi, mu, call, sent, backend, servers, versions, idCounter, interfaces, registry,
                   deactivated>>

\* the name changed: ValidateName(server.Name, id)
UpdateValidate(w) ==
    /\ pc[w] = "upd_validate"
    /\ IF ValidateName(loc[w].body.name, loc[w].id)
       THEN Goto(w, "upd_persist", loc[w])
       ELSE Done(w, loc[w], 400, "conflict")
    /\ UNCHANGED <<httpCounter, openapi, mu, call, sent, backend, servers, versions, idCounter, interfaces, registry,
                   deactivated>>

\* in-memory Update: the stored record becomes the request's record at
\* version existing+1, and a clone of it is the snapshot of that version
MemUpdate(server) ==
    LET stored == [server EXCEPT !.version = servers[server.id].version + 1]
    IN /\ servers' = Put(servers, server.id, stored)
       /\ versions' = Put(versions, server.id,
                          Put(IF server.id \in DOMAIN versions
                              THEN versions[server.id] ELSE Empty,
                              stored.version, cloneMCPServer(stored)))

\* mcpRepo.Update: in memory one locked step; in the relational store the
\* SELECT of the current version, the UPDATE being UpdateWrite
UpdatePersist(w) ==
    /\ pc[w] = "upd_persist"
    /\ loc[w].id \in DOMAIN servers => servers[loc[w].id].version < MaxVersion
    /\ LET l == loc[w]
       IN IF l.id \notin DOMAIN servers
          THEN /\ Done(w, l, 404, "not_found")
               /\ UNCHANGED <<servers, versions>>
          ELSE IF backend = "memory"
               THEN /\ MemUpdate(l.body)
                    /\ Done(w, [l EXCEPT !.ver = servers[l.id].version + 1],
                            200, "")
               ELSE /\ Goto(w, "upd_write",
                            [l EXCEPT !.ver = servers[l.id].version + 1])
                    /\ UNCHANGED <<servers, versions>>
    /\ UNCHANGED <<httpCounter, openapi, mu, call, sent, backend, idCounter, interfaces, registry, deactivated>>

\* relational Update, second statement: UPDATE ... WHERE id (no row: no error)
UpdateWrite(w) ==
    /\ pc[w] = "upd_write"
    /\ LET l == loc[w]
       IN /\ servers' = IF l.id \in DOMAIN servers
                        THEN Put(servers, l.id, [l.body EXCEPT !.version = l.ver])
                        ELSE servers
          /\ Done(w, l, 200, "")
    /\ UNCHANGED <<httpCounter, openapi, mu, call, sent, backend, versions, idCounter, interfaces, registry,
                   deactivated>>

-----------------------------------------------------------------------------
(* DELETE /api/mcp-servers/:id *)

DeleteMCPServer(w) ==
    /\ pc[w] = "idle"
    /\ \E id \in ServerIds :
         LET l == [IdleLoc EXCEPT !.op = "delete", !.id = id]
         IN IF id \in DOMAIN servers
            THEN /\ servers' = Drop(servers, id)
                 /\ versions' = Drop(versions, id)
                 /\ deactivated' = deactivated \ {id}
                 /\ Done(w, l, 204, "")
            ELSE /\ Done(w, l, 404, "not_found")
                 /\ UNCHANGED <<servers, versions, deactivated>>
    /\ UNCHANGED <<httpCounter, openapi, mu, call, sent, backend, idCounter, interfaces, registry>>

-----------------------------------------------------------------------------
(* PUT and DELETE /api/http-interfaces/:id *)

\* ids of HTTP interfaces a request may name (3 is an id of no interface)
InterfaceIds == {1, 2, 3}

\* the body of an endpoint update: the endpoint keeps its name and moves to
\* another method and path
InterfaceBody(id) ==
    [id |-> id,
     name |-> IF id \in DOMAIN SeedInterfaces THEN SeedInterfaces[id].name
              ELSE "get-none",
     description |-> "moved",
     method |-> "POST",
     path |-> "https://example.org/moved",
     version |-> 0]

\* UpdateHTTPInterface: the in-memory Update is one locked step; the
\* relational Update reads the current version first, the UPDATE being
\* UpdateHTTPInterfaceWrite
UpdateHTTPInterface(w) ==
    /\ pc[w] = "idle"
    /\ \E id \in InterfaceIds :
         LET l == [IdleLoc EXCEPT !.op = "ep_update", !.id = id]
         IN /\ id \in DOMAIN interfaces => interfaces[id].version < MaxVersion
            /\ IF id \notin DOMAIN interfaces
               THEN /\ Done(w, l, 404, "interface_not_found")
                    /\ UNCHANGED interfaces
               ELSE IF backend = "memory"
                    THEN /\ interfaces' =
                              Put(interfaces, id,
                                  [InterfaceBody(id) EXCEPT
                                     !.version = interfaces[id].version + 1])
                         /\ Done(w, l, 200, "")
                    ELSE /\ Goto(w, "ep_write",
                                 [l EXCEPT !.ver = interfaces[id].version + 1])
                         /\ UNCHANGED interfaces
    /\ UNCHANGED <<httpCounter, openapi, mu, call, sent, backend, servers, versions, idCounter,
                   registry, deactivated>>

\* relational Update, second statement: UPDATE ... WHERE id; no row affected
\* is ErrNotFound
UpdateHTTPInterfaceWrite(w) ==
    /\ pc[w] = "ep_write"
    /\ LET l == loc[w]
       IN IF l.id \in DOMAIN interfaces
          THEN /\ interfaces' = Put(interfaces, l.id,
                                    [InterfaceBody(l.id) EXCEPT !.version = l.ver])
               /\ Done(w, l, 200, "")
          ELSE /\ Done(w, l, 404, "interface_not_found")
               /\ UNCHANGED interfaces
    /\ UNCHANGED <<httpCounter, openapi, mu, call, sent, backend, servers, versions, idCounter,
                   registry, deactivated>>

\* DeleteHTTPInterface: the endpoint and its versions are removed
DeleteHTTPInterface(w) ==
    /\ pc[w] = "idle"
    /\ \E id \in InterfaceIds :
         LET l == [IdleLoc EXCEPT !.op = "ep_delete", !.id = id]
         IN IF id \in DOMAIN interfaces
            THEN /\ interfaces' = Drop(interfaces, id)
                 /\ Done(w, l, 204, "")
            ELSE /\ Done(w, l, 404, "interface_not_found")
                 /\ UNCHANGED interfaces
    /\ UNCHANGED <<httpCounter, openapi, mu, call, sent, backend, servers, versions, idCounter,
                   registry, deactivated>>

-----------------------------------------------------------------------------
(* POST /api/mcp-servers/:id/register, /activate, /deactivate *)

\* a status change that also reaches the snapshot of the current version, as
\* it would if the snapshot were the stored record itself and not a clone
UpdateStatusOfSnapshot(id, status) ==
    /\ servers' = Put(servers, id, [servers[id] EXCEPT !.status = status])
    /\ versions' =
         IF id \in DOMAIN versions /\ servers[id].version \in DOMAIN versions[id]
         THEN [versions EXCEPT ![id][servers[id].version].status = status]
         ELSE versions

\* UpdateStatus: the status of the stored record, nothing else; the
\* snapshots are clones and stay as they were written
UpdateStatus(id, status) ==
    /\ servers' = Put(servers, id, [servers[id] EXCEPT !.status = status])
    /\ versions' = versions

RegisterMCPServer(w) ==
    /\ pc[w] = "idle"
    /\ \E id \in ServerIds :
         LET l == [IdleLoc EXCEPT !.op = "register", !.id = id]
             server == GetByID(id)
         IN IF server = << >>
            THEN Done(w, l, 404, "not_found")
            ELSE Goto(w, "reg_register", [l EXCEPT !.srv = server[1]])
    /\ UNCHANGED <<httpCounter, openapi, mu, call, sent, backend, servers, versions, idCounter, interfaces, registry,
                   deactivated>>

RegisterMCPServerStep(w) ==
    /\ pc[w] = "reg_register"
    /\ registry' = RegisterServer(registry, loc[w].srv)
    /\ Done(w, loc[w], 200, "")
    /\ Registering(w)
    /\ UNCHANGED <<httpCounter, openapi, call, sent, backend, servers, versions, idCounter, interfaces,
                   deactivated>>

\* ActivateMCPServer up to the read of the record
ActivateMCPServer(w) ==
    /\ pc[w] = "idle"
    /\ \E id \in ServerIds :
         LET l == [IdleLoc EXCEPT !.op = "activate", !.id = id]
             server == GetByID(id)
         IN IF server = << >>
            THEN Done(w, l, 404, "not_found")
            ELSE Goto(w, "act_register", [l EXCEPT !.srv = server[1]])
    /\ UNCHANGED <<httpCounter, openapi, mu, call, sent, backend, servers, versions, idCounter, interfaces, registry,
                   deactivated>>

\* h.mcpService.RegisterServer(server)
ActivateRegister(w) ==
    /\ pc[w] = "act_register"
    /\ registry' = RegisterServer(registry, loc[w].srv)
    /\ Goto(w, "act_status", [loc[w] EXCEPT !.srv = NoServer])
    /\ Registering(w)
    /\ UNCHANGED <<httpCounter, openapi, call, sent, backend, servers, versions, idCounter, interfaces,
                   deactivated>>

\* h.mcpRepo.UpdateStatus(id, "active")
ActivateStatus(w) ==
    /\ pc[w] = "act_status"
    /\ LET l == loc[w]
       IN IF l.id \in DOMAIN servers
          THEN /\ UpdateStatus(l.id, "active")
               /\ deactivated' = deactivated \ {l.id}
               /\ Done(w, l, 200, "")
          ELSE /\ Done(w, l, 500, "not_found")
               /\ UNCHANGED <<servers, versions, deactivated>>
    /\ UNCHANGED <<httpCounter, openapi, mu, call, sent, backend, idCounter, interfaces, registry>>

\* DeactivateMCPServer up to the check that the server is active
DeactivateMCPServer(w) ==
    /\ pc[w] = "idle"
    /\ \E id \in ServerIds :
         LET l == [IdleLoc EXCEPT !.op = "deactivate", !.id = id]
             server == GetByID(id)
         IN IF server = << >>
            THEN Done(w, l, 404, "not_found")
            ELSE IF server[1].status # "active"
                 THEN Done(w, [l EXCEPT !.srv = server[1]], 400, "not_active")
                 ELSE Goto(w, "deact_status", [l EXCEPT !.srv = server[1]])
    /\ UNCHANGED <<httpCounter, openapi, mu, call, sent, backend, servers, versions, idCounter, interfaces, registry,
                   deactivated>>

\* h.mcpRepo.UpdateStatus(id, "inactive")
DeactivateStatus(w) ==
    /\ pc[w] = "deact_status"
    /\ LET l == loc[w]
       IN IF l.id \in DOMAIN servers
          THEN /\ UpdateStatus(l.id, "inactive")
               /\ deactivated' = deactivated \cup {l.id}
               /\ Done(w, l, 200, "")
          ELSE /\ Done(w, l, 500, "not_found")
               /\ UNCHANGED <<servers, versions, deactivated>>
    /\ UNCHANGED <<httpCounter, openapi, mu, call, sent, backend, idCounter, interfaces, registry>>

-----------------------------------------------------------------------------
(* Tool invocation and discovery *)

\* a status gate that refuses drafts only
IsActiveNotDraft(server) == server.status # "draft"

\* the status gate of the handlers: server.Status != "active" is refused
IsActive(server) == server.status = "active"

\* a check of the tool against the server's tools instead of its allow list
toolExistsAmongTools(server, toolName) == toolName \in ToolNamesOf(server)

\* the allow-list check of the handlers: toolName is one of server.AllowTools
toolExists(server, toolName) == toolName \in server.allow

\* the gates of InvokeTool and InvokeToolMCP on the record just read
\* (found is << >> for ErrNotFound)
Gate(w, l, found) ==
    IF found = << >>
    THEN Done(w, l, 404, "not_found")
    ELSE LET server == found[1]
             l2 == [l EXCEPT !.id = server.id, !.srv = server,
                             !.gate = server.status,
                             !.cold = server.id \notin DOMAIN registry]
         IN IF ~IsActive(server)
            THEN Done(w, l2, 400, "not_ready")
            ELSE IF ~toolExists(server, l.tool)
                 THEN Done(w, l2, 404, "tool_not_allowed")
                 ELSE Goto(w, "inv_register", [l2 EXCEPT !.ver = server.version])

\* POST /api/mcp-servers/:id/tools/:tool up to the gates
InvokeTool(w) ==
    /\ pc[w] = "idle"
    /\ \E id \in ServerIds, toolName \in ToolNames :
         Gate(w, [IdleLoc EXCEPT !.op = "invoke", !.route = "id", !.id = id,
                                 !.tool = toolName],
              GetByID(id))
    /\ UNCHANGED <<httpCounter, openapi, mu, call, sent, backend, servers, versions, idCounter, interfaces, registry,
                   deactivated>>

\* POST /api/mcp-server/:name/tools/:tool up to the gates
InvokeToolMCP(w) ==
    /\ pc[w] = "idle"
    /\ \E name \in Names, toolName \in ToolNames :
         LET l == [IdleLoc EXCEPT !.op = "invoke", !.route = "name",
                                  !.name = name, !.tool = toolName]
         IN IF GetByName(name) = {}
            THEN Gate(w, l, << >>)
            ELSE \E server \in GetByName(name) : Gate(w, l, <<server>>)
    /\ UNCHANGED <<httpCounter, openapi, mu, call, sent, backend, servers, versions, idCounter, interfaces, registry,
                   deactivated>>

\* the handlers' h.mcpService.RegisterServer(server) before the execution
InvokeRegister(w) ==
    /\ pc[w] = "inv_register"
    /\ registry' = RegisterServer(registry, loc[w].srv)
    /\ Goto(w, "inv_handle", [loc[w] EXCEPT !.srv = NoServer])
    /\ Registering(w)
    /\ UNCHANGED <<httpCounter, openapi, call, sent, backend, servers, versions, idCounter, interfaces,
                   deactivated>>

\* outcomes of the one upstream HTTP call
UpstreamResults == {"2xx", "non2xx", "unreachable"}

\* a client that sends every request twice
DoTwice(n) == n + 2

\* s.httpClient.Do(req): the request goes upstream, once
Do(n) == n + 1

\* the tool of the given name as the endpoint of that name defines it now
toolDefLive(server, toolName) ==
    LET live == {i \in DOMAIN interfaces : interfaces[i].name = toolName}
    IN IF live = {}
       THEN [name |-> toolName, description |-> "", method |-> "", url |-> ""]
       ELSE LET i == CHOOSE k \in live : TRUE
            IN [name |-> toolName,
                description |-> interfaces[i].description,
                method |-> interfaces[i].method,
                url |-> interfaces[i].path]

\* the tool of the given name as the server record defines it
toolDef(server, toolName) ==
    LET i == CHOOSE k \in DOMAIN server.tools : server.tools[k].name = toolName
    IN server.tools[i]

\* HandleToolRequest up to the sending of the upstream request: the registry
\* lookup under the read lock, then, the lock released, the search of the tool
\* among the registered server's tools, createRequest (which may fail) and
\* httpClient.Do; the handlers answer every error of it with 500
HandleToolRequest(w) ==
    /\ pc[w] = "inv_handle"
    /\ CanRLock(mu)
    /\ mu' = RUnlock(RLock(mu, w), w)
    /\ LET l == [loc[w] EXCEPT !.ver = 0]
       IN IF l.id \notin DOMAIN registry
          THEN Done(w, l, 500, "server_not_found")
          ELSE IF l.tool \notin ToolNamesOf(registry[l.id])
               THEN Done(w, l, 500, "tool_not_found")
               ELSE \E built \in BOOLEAN :
                      IF built
                      THEN Goto(w, "inv_upstream",
                                [l EXCEPT !.up = Do(l.up),
                                          !.url = toolDef(registry[l.id], l.tool).url])
                      ELSE Done(w, l, 500, "request_error")
    /\ UNCHANGED <<httpCounter, openapi, call, sent, backend, servers, versions, idCounter, interfaces,
                   registry, deactivated>>

\* executeToolRequest from the return of httpClient.Do: a 2xx response is the
\* result, anything else an error
executeToolRequest(w) ==
    /\ pc[w] = "inv_upstream"
    /\ \E r \in UpstreamResults :
         Done(w, loc[w], IF r = "2xx" THEN 200 ELSE 500,
                         IF r = "2xx" THEN "" ELSE r)
    /\ UNCHANGED <<httpCounter, openapi, mu, call, sent, backend, servers, versions, idCounter,
                   interfaces, registry, deactivated>>

\* the inbound request is cancelled (its client went away) while the upstream
\* call is in flight: the request context ends httpClient.Do with an error,
\* which the handler answers like every error of HandleToolRequest
Cancel(w) ==
    /\ pc[w] = "inv_upstream"
    /\ Done(w, loc[w], 500, "canceled")
    /\ UNCHANGED <<httpCounter, openapi, mu, call, sent, backend, servers, versions, idCounter,
                   interfaces, registry, deactivated>>

DiscoveryPaths == {"tools", "resources", "prompts"}

\* GET /api/mcp-server/:name/tools, /resources, /prompts
GetMCPServerTools(w) ==
    /\ pc[w] = "idle"
    /\ \E name \in Names, path \in DiscoveryPaths :
         LET l == [IdleLoc EXCEPT !.op = "discover", !.route = "name",
                                  !.name = name, !.path = path]
             reply(server) ==
                 Done(w, [l EXCEPT !.id = server.id, !.srv = server,
                                   !.gate = server.status],
                      IF IsActive(server) THEN 200 ELSE 400,
                      IF IsActive(server) THEN "" ELSE "not_ready")
         IN IF GetByName(name) = {}
            THEN Done(w, l, 404, "not_found")
            ELSE \E server \in GetByName(name) : reply(server)
    /\ UNCHANGED <<httpCounter, openapi, mu, call, sent, backend, servers, versions, idCounter, interfaces, registry,
                   deactivated>>

\* router: HandleMCPServerByNameRequest up to the status check on the copy
\* found in GetAll
HandleMCPServerByNameRequest(w) ==
    /\ pc[w] = "idle"
    /\ \E name \in Names, path \in DiscoveryPaths \cup ToolNames :
         LET l == [IdleLoc EXCEPT
                     !.op = IF path \in ToolNames THEN "invoke" ELSE "discover",
                     !.route = "router", !.name = name,
                     !.path = IF path \in ToolNames THEN "tools/" ELSE path,
                     !.tool = IF path \in ToolNames THEN path ELSE ""]
             check(target) ==
                 LET l2 == [l EXCEPT !.id = target.id, !.srv = target,
                                     !.gate = target.status,
                                     !.cold = target.id \notin DOMAIN registry]
                 IN IF ~IsActive(target)
                    THEN Done(w, l2, 400, "not_ready")
                    ELSE Goto(w, "rt_get", [l2 EXCEPT !.srv = NoServer])
         IN IF GetByName(name) = {}
            THEN Done(w, l, 404, "not_found")
            ELSE \E target \in GetByName(name) : check(target)
    /\ UNCHANGED <<httpCounter, openapi, mu, call, sent, backend, servers, versions, idCounter, interfaces, registry,
                   deactivated>>

\* router: r.mcpRepo.GetByID(targetServer.ID)
RouterGet(w) ==
    /\ pc[w] = "rt_get"
    /\ LET l == loc[w]
           server == GetByID(l.id)
       IN IF server = << >>
          THEN Done(w, [l EXCEPT !.srv = NoServer], 500, "internal")
          ELSE Goto(w, "rt_register", [l EXCEPT !.srv = server[1]])
    /\ UNCHANGED <<httpCounter, openapi, mu, call, sent, backend, servers, versions, idCounter, interfaces, registry,
                   deactivated>>

\* router: RegisterServer, then the dispatch on the path; handleToolInvocation
\* checks the allow list before HandleToolRequest
RouterRegister(w) ==
    /\ pc[w] = "rt_register"
    /\ registry' = RegisterServer(registry, loc[w].srv)
    /\ LET l == loc[w]
       IN IF l.op = "discover"
          THEN Done(w, l, 200, "")
          ELSE IF ~toolExists(l.srv, l.tool)
               THEN Done(w, l, 404, "tool_not_allowed")
               ELSE Goto(w, "inv_handle",
                         [l EXCEPT !.srv = NoServer, !.ver = l.srv.version])
    /\ Registering(w)
    /\ UNCHANGED <<httpCounter, openapi, call, sent, backend, servers, versions, idCounter, interfaces,
                   deactivated>>

-----------------------------------------------------------------------------
(* createRequest: the outbound request of a tool and a parameter document *)

\* JSON values of a parameter document: a string, a number (by its literal)
\* and an object of scalars
Str(s) == [t |-> "str", v |-> s, m |-> Empty]
Num(n) == [t |-> "num", v |-> n, m |-> Empty]
Obj(m) == [t |-> "obj", v |-> "", m |-> m]

\* a URL template is a sequence of literals and of {key} placeholders
Lit(s) == [ph |-> FALSE, s |-> s]
Ph(k) == [ph |-> TRUE, s |-> k]

\* a path text url.Parse refuses (invalid URL escape)
InvalidEscape == "%zz"

\* fmt.Sprintf("%v", value): a string as it is, a float64 in its shortest
\* form, a map in Go's map syntax
Sprint(value) ==
    IF value.t = "str" THEN value.v
    ELSE IF value.t = "num"
         THEN (IF value.v = "7.0" THEN "7" ELSE value.v)
         ELSE "map[]"

\* the order in which json.Marshal and url.Values.Encode emit keys
KeyOrder == <<"Content-Type", "X-Token", "age", "body", "headers", "id",
              "name", "raw">>

\* a map as the sequence of its <<key, value>> pairs in key order
RECURSIVE Pairs(_, _)
Pairs(m, i) ==
    IF i > Len(KeyOrder) THEN << >>
    ELSE IF KeyOrder[i] \in DOMAIN m
         THEN <<[k |-> KeyOrder[i], v |-> m[KeyOrder[i]]]>> \o Pairs(m, i + 1)
         ELSE Pairs(m, i + 1)

\* json.Marshal of a map of scalars: keys sorted, numbers in shortest form
Marshal(doc) ==
    Pairs([k \in DOMAIN doc |->
             IF doc[k].t = "num" THEN Num(Sprint(doc[k])) ELSE doc[k]], 1)

\* json.Unmarshal of a string into a map: << >> is its error
Unmarshal(text) ==
    IF text = "{\"name\":\"Bob\"}"
    THEN <<Put(Empty, "name", Str("Bob"))>>
    ELSE << >>

\* the keys whose {key} occurs in a URL template
Placeholders(url) == {url[i].s : i \in {j \in DOMAIN url : url[j].ph}}

\* replaceParams on a JSON template whose values are literals or {key}: each
\* placeholder of a key of params becomes the key's value as a string
replaceParams(template, params) ==
    Marshal([k \in DOMAIN template |->
               IF template[k].ph /\ template[k].s \in DOMAIN params
               THEN Str(Sprint(params[template[k].s]))
               ELSE Str(IF template[k].ph THEN "{...}" ELSE template[k].s)])

\* the handlers answer an error of HandleToolRequest, createRequest's
\* included, with 500
RequestError == [NoRequest EXCEPT !.state = "error", !.code = 500]

createRequest(tool, params) ==
    LET \* every {key} of a top-level key of params is replaced
        url == [i \in DOMAIN tool.url |->
                  IF tool.url[i].ph /\ tool.url[i].s \in DOMAIN params
                  THEN Lit(Sprint(params[tool.url[i].s]))
                  ELSE tool.url[i]]
        \* headers leave params if they are a map
        headersMap == "headers" \in DOMAIN params /\ params["headers"].t = "obj"
        userHeaders == IF headersMap
                       THEN [k \in DOMAIN params["headers"].m |->
                               Sprint(params["headers"].m[k])]
                       ELSE Empty
        p1 == IF headersMap THEN Drop(params, "headers") ELSE params
        \* body leaves params if it is a map or a non-empty string
        bodyMap == "body" \in DOMAIN p1 /\ p1["body"].t = "obj"
        bodyStr == /\ "body" \in DOMAIN p1
                   /\ p1["body"].t = "str"
                   /\ p1["body"].v # ""
        userBody == IF bodyMap THEN p1["body"].m
                    ELSE IF bodyStr
                         THEN IF Unmarshal(p1["body"].v) # << >>
                              THEN Unmarshal(p1["body"].v)[1]
                              ELSE Put(Empty, "raw", p1["body"])
                         ELSE Empty
        residual == IF bodyMap \/ bodyStr THEN Drop(p1, "body") ELSE p1
        body == IF tool.method = "GET" THEN NoBody
                ELSE IF DOMAIN userBody # {}
                     THEN [kind |-> "json", text |-> Marshal(userBody)]
                     ELSE IF DOMAIN tool.body # {}
                          THEN [kind |-> "template",
                                text |-> replaceParams(tool.body, residual)]
                          ELSE NoBody
        set == [k \in (DOMAIN tool.headers) \cup (DOMAIN userHeaders) |->
                  IF k \in DOMAIN userHeaders THEN userHeaders[k]
                  ELSE tool.headers[k]]
        headers == IF body # NoBody /\ "Content-Type" \notin DOMAIN set
                   THEN Put(set, "Content-Type", "application/json")
                   ELSE set
        \* what is left of params becomes the query, but for the keys of
        \* the URL template's placeholders
        query == [k \in (DOMAIN residual) \ Placeholders(tool.url) |->
                    Sprint(residual[k])]
    IN IF \E i \in DOMAIN url : url[i] = Lit(InvalidEscape)
       THEN [RequestError EXCEPT !.residual = residual]
       ELSE [state |-> "built", code |-> 0, method |-> tool.method,
             url |-> url, headers |-> headers, body |-> body,
             query |-> Pairs(query, 1), residual |-> residual]

\* tools a stored server may define
RequestTools ==
    {[name |-> "get-user-by-id", method |-> "GET",
      url |-> <<Lit("https://api.example.com/users/"), Ph("id")>>,
      headers |-> Empty, body |-> Empty],
     [name |-> "create-user", method |-> "POST",
      url |-> <<Lit("https://api.example.com/users")>>,
      headers |-> Put(Empty, "X-Token", "stored"),
      body |-> Put(Empty, "name", Ph("name"))],
     [name |-> "put-user", method |-> "PUT",
      url |-> <<Lit("https://api.example.com/users/"), Ph("id")>>,
      headers |-> Empty, body |-> Empty]}

\* values a caller gives the keys of its parameter document
ParamValues ==
    [k \in {"id", "name", "headers", "body"} |->
        IF k = "id" THEN {Str("42"), Num("7.0"), Str(InvalidEscape)}
        ELSE IF k = "name" THEN {Str("Ada")}
        ELSE IF k = "headers"
             THEN {Obj(Put(Empty, "X-Token", Str("mine"))), Str("x")}
             ELSE {Obj(Empty),
                   Obj(Put(Empty, "id", Str("42"))),
                   Obj(Put(Put(Empty, "name", Str("Ada")), "age", Num("31"))),
                   Str(""), Str("plain"), Str("{\"name\":\"Bob\"}"),
                   Num("42")}]

\* the parameter documents: any of the keys, each with one of its values
ParamDocs ==
    UNION {{d \in [K -> UNION {ParamValues[k] : k \in K}] :
              \A k \in K : d[k] \in ParamValues[k]}
           : K \in SUBSET DOMAIN ParamValues}

\* a call: the tool, the parameter document as the caller passes it, and
\* the caller's map itself, which createRequest receives by reference
Calls ==
    {[tool |-> t, params |-> d, held |-> d] : t \in RequestTools, d \in ParamDocs}

\* the gateway as built, about to build the request of one call
InitReq ==
    /\ InitGateway
    /\ call \in Calls
    /\ sent = NoRequest
    /\ openapi = NoTranscode

\* executeToolRequest calls createRequest, whose delete(params, ...) of the
\* headers and the body it took out act on the caller's map
BuildRequest ==
    /\ sent = NoRequest
    /\ call # NoCall
    /\ sent' = createRequest(call.tool, call.held)
    /\ call' = [call EXCEPT !.held = sent'.residual]
    /\ UNCHANGED <<httpCounter, openapi, backend, servers, versions, idCounter,
                   interfaces, registry, pc, loc, deactivated, mu>>

NextReq == BuildRequest

SpecReq == InitReq /\ [][NextReq]_vars

-----------------------------------------------------------------------------
(* The OpenAPI transcoder: ConvertToOpenAPI and CreateFromOpenAPI *)

\* most interface ids the repository gives out
MaxInterfaces == 5

Methods == {"GET", "POST", "DELETE"}

\* strings.ToLower and strings.ToUpper on the method names in use
ToLower(method) ==
    CASE method = "GET" -> "get"
      [] method = "POST" -> "post"
      [] method = "DELETE" -> "delete"
      [] OTHER -> method

ToUpper(method) ==
    CASE method = "get" -> "GET"
      [] method = "post" -> "POST"
      [] method = "delete" -> "DELETE"
      [] OTHER -> method

\* fmt.Sprintf("%d", code) and strconv.Atoi (<< >> is its error)
Itoa(code) ==
    CASE code = 200 -> "200"
      [] code = 201 -> "201"
      [] code = 404 -> "404"
      [] OTHER -> "0"

Atoi(text) ==
    CASE text = "200" -> <<200>>
      [] text = "201" -> <<201>>
      [] text = "404" -> <<404>>
      [] text = "0" -> <<0>>
      [] OTHER -> << >>

\* sanitizePath on the paths in use
sanitizePath(path) ==
    CASE path = "/users" -> "users"
      [] path = "/users/{id}" -> "users-id"
      [] OTHER -> path

\* json.Unmarshal of a schema or example text into a map (<< >> is its error)
\* and json.Marshal of such a map, which writes no space after the colon
ParseObject(text) ==
    CASE text = "{\"type\": \"object\"}" -> <<[type |-> "object"]>>
      [] text = "{\"type\":\"object\"}" -> <<[type |-> "object"]>>
      [] text = "{\"type\": \"string\"}" -> <<[type |-> "string"]>>
      [] text = "{\"type\":\"string\"}" -> <<[type |-> "string"]>>
      [] OTHER -> << >>

MarshalObject(object) == "{\"type\":\"" \o object.type \o "\"}"

\* the schema an exported body carries: the stored text parsed, or the default
SchemaOf(body) ==
    IF ParseObject(body.schema) = << >> THEN [type |-> "object"]
    ELSE ParseObject(body.schema)[1]

\* the example an exported body carries: none for the empty text, the text
\* parsed, or the text itself as a JSON string
ExampleOf(body) ==
    IF body.example = "" THEN << >>
    ELSE IF ParseObject(body.example) = << >>
         THEN <<[t |-> "string", v |-> body.example]>>
         ELSE <<[t |-> "object",
                 v |-> MarshalObject(ParseObject(body.example)[1])]>>

\* content: {contentType: {schema, example}}
ContentOf(body) ==
    Put(Empty, body.contentType,
        [schema |-> <<SchemaOf(body)>>, example |-> ExampleOf(body)])

ParamObj(param) ==
    [name |-> param.name, in |-> param.in, description |-> param.description,
     required |-> param.required, type |-> <<param.type>>]

HeaderParam(header) ==
    [name |-> header.name, in |-> "header",
     description |-> header.description, required |-> header.required,
     type |-> <<header.type>>]

\* responses[fmt.Sprintf("%d", StatusCode)] = respObj, in the order stored:
\* the last response of a status code is the one that stays
ResponsesOf(h) ==
    LET keys == {Itoa(h.responses[i].statusCode) : i \in DOMAIN h.responses}
        last(k) == CHOOSE i \in DOMAIN h.responses :
                     /\ Itoa(h.responses[i].statusCode) = k
                     /\ \A j \in DOMAIN h.responses :
                          Itoa(h.responses[j].statusCode) = k => j <= i
    IN [k \in keys |->
          [description |-> h.responses[last(k)].description,
           content |-> IF h.responses[last(k)].body = << >> THEN Empty
                       ELSE ContentOf(h.responses[last(k)].body[1])]]

\* ConvertToOpenAPI: one path with one operation. "maps" is the Go type
\* []map[string]interface{} of the parameter list it builds
ConvertToOpenAPI(h) ==
    LET operation ==
          [summary |-> h.description,
           description |-> h.description,
           operationId |-> h.name,
           parameters |->
              IF Len(h.parameters) + Len(h.headers) > 0
              THEN [kind |-> "maps",
                    items |-> [i \in DOMAIN h.parameters |->
                                 ParamObj(h.parameters[i])]
                              \o [i \in DOMAIN h.headers |->
                                    HeaderParam(h.headers[i])]]
              ELSE [kind |-> "absent", items |-> << >>],
           requestBody |->
              IF h.requestBody = << >> THEN << >>
              ELSE <<[description |-> "Request body",
                      content |-> ContentOf(h.requestBody[1])]>>,
           responses |-> ResponsesOf(h)]
    IN [openapi |-> "3.0.0",
        info |-> [title |-> h.name, description |-> h.description,
                  version |-> "1.0.0"],
        paths |-> Put(Empty, h.path, Put(Empty, ToLower(h.method), operation))]

\* c.JSON of the document and json decoding of it into
\* map[string]interface{}: every list arrives as []interface{} ("list")
DecodeJSON(openAPI) ==
    [openAPI EXCEPT !.paths =
        [p \in DOMAIN openAPI.paths |->
            [m \in DOMAIN openAPI.paths[p] |->
                [openAPI.paths[p][m] EXCEPT !.parameters.kind =
                    IF @ = "maps" THEN "list" ELSE @]]]]

\* the orders in which a range over a Go map may visit the keys S
Orders(S) ==
    {f \in [1 .. Cardinality(S) -> S] :
        \A i, j \in 1 .. Cardinality(S) : i # j => f[i] # f[j]}

\* the operations of a document: its (path, method) keys
Operations(openAPI) ==
    UNION {{<<p, m>> : m \in DOMAIN openAPI.paths[p]} :
              p \in DOMAIN openAPI.paths}

\* the status keys of an operation that strconv.Atoi accepts
StatusKeys(operation) ==
    {k \in DOMAIN operation.responses : Atoi(k) # << >>}

\* the body read from a content map: its first content type (the documents
\* here give one content type at most), the schema marshalled again
BodyOf(content) ==
    IF DOMAIN content = {} THEN << >>
    ELSE LET contentType == CHOOSE ct \in DOMAIN content : TRUE
             contentObj == content[contentType]
         IN <<[contentType |-> contentType,
               schema |-> IF contentObj.schema = << >>
                          THEN "{\"type\": \"object\"}"
                          ELSE MarshalObject(contentObj.schema[1]),
               example |-> IF contentObj.example = << >> THEN ""
                           ELSE IF contentObj.example[1].t = "string"
                                THEN "\"" \o contentObj.example[1].v \o "\""
                                ELSE contentObj.example[1].v]>>

\* the type of a parameter object: schema.type, "string" without one
TypeOf(param) == IF param.type = << >> THEN "string" ELSE param.type[1]

IsHeader(param) == param.in = "header"
IsNoHeader(param) == param.in # "header"

\* the interface CreateFromOpenAPI builds from one operation, its responses
\* visited in the order statusOrder
InterfaceOf(name, description, openAPI, path, method, statusOrder) ==
    LET operation == openAPI.paths[path][method]
        parameters == IF operation.parameters.kind = "list"
                      THEN operation.parameters.items ELSE << >>
        asHeaders == SelectSeq(parameters, IsHeader)
        asParams == SelectSeq(parameters, IsNoHeader)
    IN [name |-> IF operation.operationId # "" THEN operation.operationId
                 ELSE name \o "-" \o ToLower(method) \o "-"
                      \o sanitizePath(path),
        description |-> description,
        method |-> ToUpper(method),
        path |-> path,
        headers |-> [i \in DOMAIN asHeaders |->
                       [name |-> asHeaders[i].name,
                        description |-> asHeaders[i].description,
                        required |-> asHeaders[i].required,
                        type |-> TypeOf(asHeaders[i])]],
        parameters |-> [i \in DOMAIN asParams |->
                          [name |-> asParams[i].name,
                           description |-> asParams[i].description,
                           in |-> asParams[i].in,
                           required |-> asParams[i].required,
                           type |-> TypeOf(asParams[i]),
                           schema |-> ""]],
        requestBody |-> IF operation.requestBody = << >> THEN << >>
                        ELSE BodyOf(operation.requestBody[1].content),
        responses |-> [i \in DOMAIN statusOrder |->
                         [statusCode |-> Atoi(statusOrder[i])[1],
                          description |->
                             operation.responses[statusOrder[i]].description,
                          body |->
                             BodyOf(operation.responses[statusOrder[i]].content)]]]

\* CreateFromOpenAPI: the interface lists it may return, one per order in
\* which the ranges over the paths, the methods and the responses run; the
\* empty list stands for its error (no paths, or no operation)
CreateFromOpenAPI(name, description, openAPI) ==
    LET ops == Operations(openAPI)
        keys(o) == StatusKeys(openAPI.paths[o[1]][o[2]])
        statusOrders ==
            {f \in [ops -> UNION {Orders(keys(o)) : o \in ops}] :
                \A o \in ops : f[o] \in Orders(keys(o))}
    IN IF ops = {} THEN {<< >>}
       ELSE {[i \in DOMAIN order |->
                InterfaceOf(name, description, openAPI,
                            order[i][1], order[i][2], so[order[i]])] :
               order \in Orders(ops), so \in statusOrders}

\* the endpoint records given to the transcoder: what the binding of an
\* HTTPInterface accepts (a method in capitals, parameters in query, path or
\* header)
XToken ==
    [name |-> "X-Token", description |-> "token", required |-> TRUE,
     type |-> "string"]
UserId ==
    [name |-> "id", description |-> "user id", in |-> "path",
     required |-> TRUE, type |-> "integer", schema |-> ""]
Search ==
    [name |-> "q", description |-> "", in |-> "query", required |-> FALSE,
     type |-> "string", schema |-> ""]
XTrace ==
    [name |-> "X-Trace", description |-> "trace id", in |-> "header",
     required |-> FALSE, type |-> "string", schema |-> ""]
JsonBody ==
    [contentType |-> "application/json",
     schema |-> "{\"type\": \"object\"}", example |-> ""]
TextBody ==
    [contentType |-> "text/plain", schema |-> "oops", example |-> "hi"]
Found == [statusCode |-> 200, description |-> "ok", body |-> <<JsonBody>>]
Missing == [statusCode |-> 404, description |-> "missing", body |-> << >>]

Endpoints ==
    {[name |-> "get-user", description |-> "a user", method |-> m,
      path |-> p, headers |-> hs, parameters |-> ps, requestBody |-> b,
      responses |-> rs] :
        m \in Methods,
        p \in {"/users", "/users/{id}"},
        hs \in {<< >>, <<XToken>>},
        ps \in {<< >>, <<UserId>>, <<Search, UserId>>, <<XTrace>>},
        b \in {<< >>, <<JsonBody>>, <<TextBody>>},
        rs \in {<< >>, <<Found>>, <<Found, Missing>>}}

\* the name and the description the import handler passes on: the request's,
\* or info.title ("api" without one) and info.description
ImportName(req) ==
    IF req.name # "" THEN req.name
    ELSE IF req.spec.info.title # "" THEN req.spec.info.title ELSE "api"

ImportDescription(req) ==
    IF req.description # "" THEN req.description
    ELSE req.spec.info.description

InitOpenAPI ==
    /\ InitGateway
    /\ call = NoCall
    /\ sent = NoRequest
    /\ openapi \in {[NoTranscode EXCEPT !.state = "endpoint",
                                        !.endpoint = <<h>>] : h \in Endpoints}

\* GET /api/http-interfaces/:id/openapi: the endpoint converted, the document
\* written as JSON and read by the client
ExportToOpenAPI ==
    /\ openapi.state = "endpoint"
    /\ openapi' = [openapi EXCEPT
                      !.state = "exported",
                      !.spec = <<ConvertToOpenAPI(openapi.endpoint[1])>>,
                      !.wire = <<DecodeJSON(ConvertToOpenAPI(openapi.endpoint[1]))>>]
    /\ UNCHANGED <<httpCounter, call, sent, backend, servers, versions,
                   idCounter, interfaces, registry, pc, loc, deactivated, mu>>

\* the exported document sent back to the import, with a name or without
Reimport ==
    /\ openapi.state = "exported"
    /\ \E name \in {"", "imported-api"} :
         LET req == [name |-> name,
                     description |-> "Imported from exported OpenAPI",
                     spec |-> openapi.wire[1]]
         IN \E parsed \in CreateFromOpenAPI(ImportName(req),
                                            ImportDescription(req), req.spec) :
               openapi' = [openapi EXCEPT !.state = "imported",
                                          !.parsed = parsed]
    /\ UNCHANGED <<httpCounter, call, sent, backend, servers, versions,
                   idCounter, interfaces, registry, pc, loc, deactivated, mu>>

NextOpenAPI ==
    \/ ExportToOpenAPI
    \/ Reimport

SpecOpenAPI == InitOpenAPI /\ [][NextOpenAPI]_vars

-----------------------------------------------------------------------------
(* POST /api/http-interfaces/from-openapi *)

\* an operation of a document a client writes
SampleOperation(operationId, params) ==
    [summary |-> "", description |-> "", operationId |-> operationId,
     parameters |-> [kind |-> IF params = << >> THEN "absent" ELSE "list",
                     items |-> params],
     requestBody |-> << >>,
     responses |-> Put(Empty, "200", [description |-> "ok", content |-> Empty])]

\* import requests: the sample document (/users get and post, /users/{id}
\* get), a document of one operation and a document without paths
ImportRequests ==
    LET info == [title |-> "Sample API", description |-> "Sample API for testing",
                 version |-> "1.0.0"]
        users == Put(Put(Empty, "get", SampleOperation("listUsers", << >>)),
                     "post", SampleOperation("", << >>))
        user == Put(Empty, "get",
                    SampleOperation("getUser", <<ParamObj(UserId)>>))
    IN {[name |-> "sample-api", description |-> "",
         spec |-> [openapi |-> "3.0.0", info |-> info, paths |-> paths]] :
           paths \in {Put(Put(Empty, "/users", users), "/users/{id}", user),
                      Put(Empty, "/users/{id}", user),
                      Empty}}

\* interfaces that imports in flight have parsed and not saved yet
ImportsInFlight ==
    Cardinality({x \in Workers \X (1 .. MaxInterfaces) :
                    /\ pc[x[1]] = "imp_save"
                    /\ x[2] <= Len(loc[x[1]].fetched)})

\* the record the interface store keeps of an interface (the fields of the
\* store that are modelled)
StoredInterface(h, id) ==
    [id |-> id, name |-> h.name, description |-> h.description,
     method |-> h.method, path |-> h.path, version |-> 1]

\* CreateFromOpenAPI (handler) up to the first repo.Create
CreateFromOpenAPIHandler(w) ==
    /\ pc[w] = "idle"
    /\ \E req \in ImportRequests :
         \E parsed \in CreateFromOpenAPI(ImportName(req),
                                         ImportDescription(req), req.spec) :
            LET l == [IdleLoc EXCEPT !.op = "import", !.spec = <<req.spec>>]
            IN /\ httpCounter + ImportsInFlight + Len(parsed) <= MaxInterfaces
               /\ IF parsed = << >>
                  THEN Done(w, l, 400, "bad_spec")
                  ELSE Goto(w, "imp_save", [l EXCEPT !.fetched = parsed])
    /\ UNCHANGED <<httpCounter, openapi, mu, call, sent, backend, servers,
                   versions, idCounter, interfaces, registry, deactivated>>

\* one pass of the loop: repo.Create of the next interface; after the last
\* one the handler answers 201 with the interfaces saved
SaveInterface(w) ==
    /\ pc[w] = "imp_save"
    /\ LET l == loc[w]
           id == httpCounter + 1
           saved == [l EXCEPT !.saved = Append(@, id), !.fetched = Tail(@)]
       IN /\ httpCounter' = id
          /\ interfaces' = Put(interfaces, id,
                               StoredInterface(Head(l.fetched), id))
          /\ IF saved.fetched = << >>
             THEN Done(w, saved, 201, "")
             ELSE Goto(w, "imp_save", saved)
    /\ UNCHANGED <<openapi, mu, call, sent, backend, servers, versions,
                   idCounter, registry, deactivated>>

-----------------------------------------------------------------------------
(* Environment *)

\* positions whose next step is a statement sent to the database
DbPcs == {"create_fetch", "create_persist", "upd_validate", "upd_persist",
          "upd_write", "act_status", "deact_status", "rt_get", "ep_write",
          "imp_save"}

\* the relational store fails the statement: the handler answers 500
DbError(w) ==
    /\ backend = "pg"
    /\ pc[w] \in DbPcs
    /\ Done(w, loc[w], 500, "db")
    /\ UNCHANGED <<httpCounter, openapi, mu, call, sent, backend, servers, versions, idCounter, interfaces, registry,
                   deactivated>>

\* the process stops and starts again: requests in flight and the registry are
\* gone, and so are the in-memory repositories; the database keeps its rows;
\* main() seeds the example interfaces into an empty interface store
Restart ==
    /\ registry' = Empty
    /\ pc' = [w \in Workers |-> "idle"]
    /\ loc' = [w \in Workers |-> IdleLoc]
    /\ IF backend = "memory"
       THEN /\ servers' = Empty
            /\ versions' = Empty
            /\ idCounter' = 0
            /\ deactivated' = {}
            /\ interfaces' = SeedInterfaces
            /\ httpCounter' = Cardinality(DOMAIN SeedInterfaces)
       ELSE /\ interfaces' = IF interfaces = Empty THEN SeedInterfaces
                             ELSE interfaces
            /\ UNCHANGED <<servers, versions, idCounter, deactivated,
                           httpCounter>>
    /\ mu' = Free
    /\ UNCHANGED <<openapi, call, sent, backend>>

\* the response is written and the worker is free again
Respond(w) ==
    /\ pc[w] = "done"
    /\ Goto(w, "idle", IdleLoc)
    /\ UNCHANGED <<httpCounter, openapi, mu, call, sent, backend, servers, versions, idCounter, interfaces, registry,
                   deactivated>>

\* the steps of a composition after its first
Compose(w) ==
    \/ CreateFetch(w)
    \/ CreatePersist(w)

\* the steps of an update after its first
Update(w) ==
    \/ UpdateValidate(w)
    \/ UpdatePersist(w)
    \/ UpdateWrite(w)

\* registration, activation and deactivation
Lifecycle(w) ==
    \/ RegisterMCPServer(w)
    \/ RegisterMCPServerStep(w)
    \/ ActivateMCPServer(w)
    \/ ActivateRegister(w)
    \/ ActivateStatus(w)
    \/ DeactivateMCPServer(w)
    \/ DeactivateStatus(w)

\* updates and deletions of HTTP interfaces
Endpoint(w) ==
    \/ UpdateHTTPInterface(w)
    \/ UpdateHTTPInterfaceWrite(w)
    \/ DeleteHTTPInterface(w)

\* the MCP-facing API: one step of a handler run by worker w
Client(w) ==
    \/ InvokeTool(w)
    \/ InvokeToolMCP(w)
    \/ InvokeRegister(w)
    \/ HandleToolRequest(w)
    \/ executeToolRequest(w)
    \/ Cancel(w)
    \/ GetMCPServerTools(w)
    \/ HandleMCPServerByNameRequest(w)
    \/ RouterGet(w)
    \/ RouterRegister(w)

Next ==
    \/ \E w \in Workers :
          \/ CreateMCPServer(w)
          \/ Compose(w)
          \/ UpdateMCPServer(w)
          \/ Update(w)
          \/ DeleteMCPServer(w)
          \/ Lifecycle(w)
          \/ Endpoint(w)
          \/ Client(w)
          \/ DbError(w)
          \/ CreateFromOpenAPIHandler(w)
          \/ SaveInterface(w)
          \/ Respond(w)
    \/ Restart
    \/ BuildRequest
    \/ ExportToOpenAPI
    \/ Reimport

Spec == Init /\ [][Next]_vars

-----------------------------------------------------------------------------
(* Scenarios: behaviours of Spec in which the requests keep to a pattern *)

Operators == {"w2"}
Clients == {"w1"}

\* a composition that starts when no server was composed and none is being
\* composed
ComposeFirst(w) ==
    /\ idCounter + CreatesInFlight = 0
    /\ CreateMCPServer(w)

\* the record worker w's request is about, if it is stored
Target(w) == GetByID(loc'[w].id)

\* an update whose body keeps the name and the tools of the stored record:
\* it edits the allow list or the status
ReviseMCPServer(w) ==
    /\ UpdateMCPServer(w)
    /\ Target(w) # << >> => /\ loc'[w].body.name = Target(w)[1].name
                            /\ loc'[w].body.tools = Target(w)[1].tools

\* an update whose body keeps the allow list and the status of the stored
\* record: it edits the name or the tools
EditMCPServer(w) ==
    /\ UpdateMCPServer(w)
    /\ Target(w) # << >> => /\ loc'[w].body.allow = Target(w)[1].allow
                            /\ loc'[w].body.status = Target(w)[1].status

\* an operator manages one server, its allow list and its status, while a
\* client discovers and invokes it
NextOne ==
    \/ \E w \in Operators :
          \/ ComposeFirst(w)
          \/ Compose(w)
          \/ ReviseMCPServer(w)
          \/ UpdatePersist(w)
          \/ UpdateWrite(w)
          \/ DeleteMCPServer(w)
          \/ Lifecycle(w)
    \/ \E w \in Clients : Client(w)
    \/ \E w \in Workers : DbError(w) \/ Respond(w)
    \/ Restart

SpecOne == Init /\ [][NextOne]_vars

\* the catalog alone: parallel workers compose servers, edit their names and
\* tools, and delete them
NextCat ==
    \E w \in Workers :
        \/ CreateMCPServer(w)
        \/ Compose(w)
        \/ EditMCPServer(w)
        \/ Update(w)
        \/ DeleteMCPServer(w)
        \/ DbError(w)
        \/ Respond(w)

SpecCat == Init /\ [][NextCat]_vars

\* an operator composes and activates one server and then updates and deletes
\* the endpoints it was composed of, while a client invokes the server
NextEnd ==
    \/ \E w \in Operators :
          \/ ComposeFirst(w)
          \/ Compose(w)
          \/ Endpoint(w)
          \/ ActivateMCPServer(w)
          \/ ActivateRegister(w)
          \/ ActivateStatus(w)
    \/ \E w \in Clients :
          \/ InvokeTool(w)
          \/ InvokeRegister(w)
          \/ HandleToolRequest(w)
          \/ executeToolRequest(w)
    \/ \E w \in Workers : DbError(w) \/ Respond(w)
    \/ Restart

SpecEnd == Init /\ [][NextEnd]_vars

\* the interface catalog: parallel workers import OpenAPI documents
NextImport ==
    \E w \in Workers :
        \/ CreateFromOpenAPIHandler(w)
        \/ SaveInterface(w)
        \/ DbError(w)
        \/ Respond(w)

SpecImport == Init /\ [][NextImport]_vars

\* a step a handler's goroutine takes by itself: it waits for no client, no
\* upstream and no failure of the database
Progress(w) ==
    \/ Compose(w)
    \/ ActivateRegister(w)
    \/ ActivateStatus(w)
    \/ InvokeRegister(w)
    \/ HandleToolRequest(w)
    \/ Respond(w)

\* an operator composes and activates one server and a client invokes it; the
\* upstream answers, or the client gives up, when it pleases
NextLive ==
    \/ \E w \in Operators :
          \/ ComposeFirst(w)
          \/ Compose(w)
          \/ ActivateMCPServer(w)
          \/ ActivateRegister(w)
          \/ ActivateStatus(w)
    \/ \E w \in Clients :
          \/ InvokeTool(w)
          \/ InvokeRegister(w)
          \/ HandleToolRequest(w)
          \/ executeToolRequest(w)
          \/ Cancel(w)
    \/ \E w \in Workers : DbError(w) \/ Respond(w)

\* the Go scheduler runs every goroutine that can run
SpecLive ==
    /\ Init
    /\ [][NextLive]_vars
    /\ \A w \in Workers : WF_vars(Progress(w))

-----------------------------------------------------------------------------
(* Properties *)

\* worker w took the step
Moved(w) == pc'[w] # pc[w] \/ loc'[w] # loc[w]

\* C1: a discovery or an invocation (by id or by name) whose lookup found a
\* server that is draft or inactive is answered 400 not_ready at once and no
\* upstream request is issued for it.
C1_OnlyActiveServersAnswer ==
    \A w \in Workers :
        (loc[w].op \in {"invoke", "discover"}
            /\ loc[w].gate \in {"draft", "inactive"})
        => /\ pc[w] = "done"
           /\ loc[w].code = 400
           /\ loc[w].kind = "not_ready"
           /\ loc[w].up = 0

\* the invocation of an allowed tool of a registered, inactive server was
\* refused
C1_Witness ==
    \E w \in Workers :
         /\ pc[w] = "done"
         /\ loc[w].op = "invoke"
         /\ loc[w].gate = "inactive"
         /\ loc[w].code = 400
         /\ loc[w].id \in DOMAIN registry
         /\ loc[w].tool \in registry[loc[w].id].allow

\* C2: no two live servers share a name, whatever the interleaving of the
\* compositions, renames and deletions of parallel workers.
C2_NamesUnique ==
    \A i \in DOMAIN servers, j \in DOMAIN servers :
        i # j => servers[i].name # servers[j].name

\* C3: the allow list of every stored server is a subset of the names of its
\* tools.
C3_AllowSubsetOfTools ==
    \A id \in DOMAIN servers : servers[id].allow \subseteq ToolNamesOf(servers[id])

\* the allow check of an invocation by worker w runs in this step and finds
\* the tool outside the allow list of the record the handler read
AllowCheckFails(w) ==
    /\ loc'[w].op = "invoke"
    /\ \/ /\ pc[w] = "idle"
          /\ loc'[w].route \in {"id", "name"}
          /\ loc'[w].id \in DOMAIN servers
          /\ servers[loc'[w].id].status = "active"
          /\ loc'[w].tool \notin servers[loc'[w].id].allow
       \/ /\ pc[w] = "rt_register"
          /\ Moved(w)
          /\ loc[w].tool \notin loc[w].srv.allow

\* C4: an invocation of a tool that is not in allow_tools is answered 404 by
\* the allow check itself, before HandleToolRequest and with no upstream
\* request, whether or not the tool is among the server's tools or in the
\* registered copy.
C4_DisallowedToolNotFound ==
    [][\A w \in Workers :
          AllowCheckFails(w)
          => /\ pc'[w] = "done"
             /\ loc'[w].code = 404
             /\ loc'[w].kind = "tool_not_allowed"
             /\ loc'[w].up = 0]_vars

\* a tool outside the allow list was refused while the stored server and the
\* registered copy both have it among their tools
C4_Witness ==
    \E w \in Workers :
        /\ pc[w] = "done"
        /\ loc[w].kind = "tool_not_allowed"
        /\ loc[w].id \in DOMAIN servers
        /\ loc[w].tool \in ToolNamesOf(servers[loc[w].id])
        /\ loc[w].tool \notin servers[loc[w].id].allow
        /\ loc[w].id \in DOMAIN registry
        /\ loc[w].tool \in ToolNamesOf(registry[loc[w].id])

\* C5: every step that changes a stored server record raises its version by
\* one and leaves the version it replaced retrievable.
C5_MutationBumpsVersion ==
    [][\A id \in (DOMAIN servers) \cap (DOMAIN servers') :
          servers'[id] # servers[id]
          => /\ servers'[id].version = servers[id].version + 1
             /\ servers[id].version \in GetVersions(id)']_vars

\* C6: the versions retrievable of a live record at version n are 1..n.
C6_VersionsContiguous ==
    \A id \in DOMAIN servers : GetVersions(id) = 1 .. servers[id].version

\* C7: when activation has ensured the registry entry and is about to finish,
\* the persisted status is already active.
C7_StatusBeforeRegistry ==
    \A w \in Workers :
        (pc[w] = "act_status" /\ loc[w].id \in DOMAIN servers)
        => servers[loc[w].id].status = "active"

DeactivateReturned(id) ==
    /\ id \in deactivated
    /\ \A v \in Workers :
         ~(loc[v].op = "deactivate" /\ loc[v].id = id /\ pc[v] # "idle")

\* C9: an invocation that starts after Deactivate returned and before the next
\* Activate is rejected by the status gate, with no upstream request.
C9_DeactivatedIsRefused ==
    [][\A w \in Workers :
          (pc[w] = "idle" /\ loc'[w].op = "invoke"
              /\ DeactivateReturned(loc'[w].id))
          => /\ pc'[w] = "done"
             /\ loc'[w].kind = "not_ready"
             /\ loc'[w].up = 0]_vars

\* the name of the composition worker w starts in this step is taken
NameTaken(w) ==
    /\ pc[w] = "idle"
    /\ loc'[w].op = "create"
    /\ \E id \in DOMAIN servers : servers[id].name = loc'[w].name

\* C10: a step of a composition either answers 201 and adds exactly one
\* record, at version 1 and under the requested name, or persists nothing; a
\* composition under a name that is taken answers conflict.
C10_CreateAllOrNothing ==
    [][\A w \in Workers :
          (Moved(w) /\ loc'[w].op = "create")
          => /\ IF pc'[w] = "done" /\ loc'[w].code = 201
                THEN \E new \in ServerIds \ DOMAIN servers :
                        /\ new = loc'[w].id
                        /\ DOMAIN servers' = (DOMAIN servers) \cup {new}
                        /\ \A id \in DOMAIN servers : servers'[id] = servers[id]
                        /\ servers'[new].version = 1
                        /\ servers'[new].name = loc'[w].name
                        /\ GetVersions(new)' = {1}
                ELSE servers' = servers /\ versions' = versions
             /\ NameTaken(w)
                => /\ pc'[w] = "done"
                   /\ loc'[w].code = 400
                   /\ loc'[w].kind = "conflict"]_vars

\* a composition was answered conflict and the catalog holds the one record
\* that has the name
C10_Witness ==
    \E w \in Workers :
        /\ pc[w] = "done"
        /\ loc[w].op = "create"
        /\ loc[w].kind = "conflict"
        /\ Cardinality({id \in DOMAIN servers : servers[id].name = loc[w].name}) = 1
        /\ \E v \in Workers \ {w} :
             pc[v] = "done" /\ loc[v].op = "create" /\ loc[v].code = 201

\* C11: the record a successful composition stores is a draft at version 1
\* with exactly one tool per selected endpoint, in the order of the selection,
\* each tool carrying the name, description, method and URL of the endpoint
\* as the handler read it, and its allow list holds the name of every tool.
C11_NewServerShape ==
    [][\A w \in Workers :
          (pc[w] = "create_persist" /\ pc'[w] = "done" /\ loc'[w].code = 201)
          => LET s == servers'[loc'[w].id]
                 eps == loc[w].fetched
             IN /\ s.status = "draft"
                /\ s.version = 1
                /\ Len(s.tools) = Len(loc[w].ids)
                /\ DOMAIN s.tools = DOMAIN eps
                /\ \A i \in DOMAIN eps :
                     /\ eps[i].id = loc[w].ids[i]
                     /\ s.tools[i].name = eps[i].name
                     /\ s.tools[i].description = eps[i].description
                     /\ s.tools[i].method = eps[i].method
                     /\ s.tools[i].url = eps[i].path
                /\ s.allow = ToolNamesOf(s)]_vars

\* a composition over the two seeded endpoints was answered 201 and its
\* record is stored as composed
C11_Witness ==
    \E w \in Workers :
        /\ pc[w] = "done"
        /\ loc[w].op = "create"
        /\ loc[w].code = 201
        /\ loc[w].id \in DOMAIN servers
        /\ servers[loc[w].id].status = "draft"
        /\ servers[loc[w].id].version = 1
        /\ Len(servers[loc[w].id].tools) = 2
        /\ servers[loc[w].id].allow = {"get-user", "get-weather"}

\* worker w's handler calls RegisterServer in this step
RegisterStep(w) ==
    /\ pc[w] \in {"reg_register", "act_register", "inv_register", "rt_register"}
    /\ pc'[w] \in {"done", "act_status", "inv_handle"}

\* C12: a registration leaves exactly one entry for the server's id, the
\* server just registered, whether or not the id was present before; it
\* touches no other entry; and registering the same server once more leaves
\* the registry as the first registration left it.
C12_RegisterIdempotentUpsert ==
    [][\A w \in Workers :
          RegisterStep(w)
          => LET s == loc[w].srv
             IN /\ DOMAIN registry' = (DOMAIN registry) \cup {s.id}
                /\ registry'[s.id] = s
                /\ \A id \in (DOMAIN registry) \ {s.id} :
                     registry'[id] = registry[id]
                /\ Cardinality(DOMAIN registry')
                     = Cardinality(DOMAIN registry)
                       + (IF s.id \in DOMAIN registry THEN 0 ELSE 1)
                /\ RegisterServer(RegisterServer(registry, s), s) = registry'
                /\ RegisterServer(registry', s) = registry']_vars

\* an invocation registered a server whose id the registry already held (the
\* entry of the activation, a draft copy) and the entry is now the active copy
C12_Witness ==
    \E w \in Workers :
        /\ pc[w] = "inv_upstream"
        /\ ~loc[w].cold
        /\ loc[w].id \in DOMAIN registry
        /\ registry[loc[w].id].status = "active"
        /\ Cardinality(DOMAIN registry) = 1

\* C13: while an upstream HTTP call of an invocation is in flight its worker
\* holds the registry lock neither shared nor exclusive, and the lock can be
\* taken by a registration (exclusive) and by a lookup (shared).
C13_NoLockAcrossUpstream ==
    \A w \in Workers :
        pc[w] = "inv_upstream"
        => /\ w \notin mu.readers
           /\ mu.writer # w
           /\ CanLock(mu)
           /\ CanRLock(mu)

\* an upstream call is in flight, its lookup done under the shared lock, while
\* another worker is about to call RegisterServer and finds the lock free
C13_Witness ==
    \E w \in Workers, v \in Workers :
        /\ pc[w] = "inv_upstream"
        /\ loc[w].up = 1
        /\ pc[v] \in {"reg_register", "act_register"}
        /\ loc[v].id = loc[w].id
        /\ CanLock(mu)

\* worker w's handler updates or deletes an HTTP interface in this step
EndpointStep(w) ==
    /\ loc'[w].op \in {"ep_update", "ep_delete"}
    /\ Moved(w)

\* the URL the stored record of server id has for the tool
StoredUrls(id, toolName) ==
    IF id \in DOMAIN servers
    THEN {servers[id].tools[i].url :
            i \in {k \in DOMAIN servers[id].tools :
                     servers[id].tools[k].name = toolName}}
    ELSE {}

\* C14: a step of an endpoint update or deletion leaves every stored server,
\* every snapshot and every registered copy as it was, and an invocation
\* sends its upstream request to the URL the stored server has for the tool,
\* whatever the endpoint of that name is now.
C14_ToolsAreCopies ==
    [][\A w \in Workers :
          /\ EndpointStep(w)
             => /\ servers' = servers
                /\ versions' = versions
                /\ registry' = registry
          /\ (pc[w] = "inv_handle" /\ pc'[w] = "inv_upstream")
             => loc'[w].url \in StoredUrls(loc[w].id, loc[w].tool)]_vars

\* an invocation is sent to the URL copied at composition while the endpoint
\* the tool was copied from has moved or is gone
C14_Witness ==
    \E w \in Workers :
        /\ pc[w] = "inv_upstream"
        /\ loc[w].tool = "get-user"
        /\ loc[w].url = SeedInterfaces[1].path
        /\ 1 \in DOMAIN interfaces => interfaces[1].path # SeedInterfaces[1].path
        /\ backend = "memory" => versions[loc[w].id][1].tools[1].url = loc[w].url

\* C15: a snapshot that is written stays as it was written: every step that
\* keeps the snapshots of a server keeps the content of each of them (status,
\* tools, allow list), whatever it does to the stored record, and a read of the
\* version returns that content.
C15_SnapshotsImmutable ==
    [][\A id \in (DOMAIN versions) \cap (DOMAIN versions') :
          \A v \in DOMAIN versions[id] :
              /\ v \in DOMAIN versions'[id]
              /\ versions'[id][v] = versions[id][v]
              /\ GetByVersion(id, v)' = <<versions[id][v]>>]_vars

\* the server was updated and its status changed after each update, and the
\* snapshots of both versions still show the status of the time of writing
C15_Witness ==
    \E id \in DOMAIN versions :
        /\ id \in DOMAIN servers
        /\ DOMAIN versions[id] = {1, 2}
        /\ versions[id][1].status = "draft"
        /\ versions[id][2].status = "active"
        /\ servers[id].version = 2
        /\ servers[id].status = "inactive"
        /\ versions[id][2].allow # versions[id][1].allow

\* the keys of the pairs of an outbound query
QueryKeys(q) == {q[i].k : i \in DOMAIN q}

\* the keys nested in the headers and the body of a parameter document
NestedKeys(params) ==
    UNION {DOMAIN params[k].m : k \in {"headers", "body"} \cap DOMAIN params}

\* C16: when the parameter document has a top-level headers or body key, of
\* whatever JSON type, the residual map of the request that is built holds
\* neither that key nor a key that occurs only nested inside it, and the
\* query has no parameter of such a key.
C16_DemuxIsPartition ==
    sent.state = "built"
    => /\ \A k \in {"headers", "body"} \cap DOMAIN call.params :
            /\ k \notin DOMAIN sent.residual
            /\ k \notin QueryKeys(sent.query)
       /\ \A j \in NestedKeys(call.params) \ DOMAIN call.params :
            /\ j \notin DOMAIN sent.residual
            /\ j \notin QueryKeys(sent.query)

\* the value the caller gave key k: in the residual map or, failing that, in
\* the explicit body object (<< >> if in neither)
Given(k) ==
    IF k \in (DOMAIN call.params) \ {"headers", "body"}
    THEN <<call.params[k]>>
    ELSE IF /\ "body" \in DOMAIN call.params
            /\ k \in DOMAIN call.params["body"].m
         THEN <<call.params["body"].m[k]>>
         ELSE << >>

\* C17: in the request that is built, every {k} of the tool's URL whose key
\* the caller gave, in the residual map or in the explicit body, is replaced
\* by the value as a string, and k is no query parameter.
C17_UrlSubstitution ==
    sent.state = "built"
    => \A i \in DOMAIN call.tool.url :
          (call.tool.url[i].ph /\ Given(call.tool.url[i].s) # << >>)
          => /\ sent.url[i] = Lit(Sprint(Given(call.tool.url[i].s)[1]))
             /\ call.tool.url[i].s \notin QueryKeys(sent.query)

\* C18: a call that leaves a {k} of the tool's URL without a value (k is
\* neither in the residual map nor in the explicit body) fails, and the
\* failure is answered 400.
C18_UnresolvedIsBadRequest ==
    (/\ sent.state # "none"
     /\ \E i \in DOMAIN call.tool.url :
           call.tool.url[i].ph /\ Given(call.tool.url[i].s) = << >>)
    => /\ sent.state = "error"
       /\ sent.code = 400

\* C19: for a tool whose method is not GET, the body of the request built
\* from a parameter document with an explicit body object is exactly the
\* JSON serialization of that object.
C19_ExplicitBodyExact ==
    (/\ sent.state = "built"
     /\ call.tool.method # "GET"
     /\ "body" \in DOMAIN call.params
     /\ call.params["body"].t = "obj")
    => sent.body = [kind |-> "json", text |-> Marshal(call.params["body"].m)]

\* C20: an invocation issues at most one upstream request: exactly one once
\* it has passed the gates, found its server and tool in the registry and
\* built its request, none otherwise; an answer of the upstream that is an
\* error, or no answer, ends the invocation without another request.
C20_AtMostOneUpstream ==
    \A w \in Workers :
        /\ loc[w].up <= 1
        /\ pc[w] = "inv_upstream" => loc[w].up = 1
        /\ pc[w] \in {"inv_register", "inv_handle", "rt_get", "rt_register"}
           => loc[w].up = 0
        /\ (pc[w] = "done" /\ loc[w].op = "invoke")
           => (loc[w].up = 1
               <=> \/ loc[w].code = 200
                   \/ loc[w].kind \in {"non2xx", "unreachable", "canceled"})

\* an invocation whose upstream could not be reached has ended with its one
\* request issued
C20_Witness ==
    \E w \in Workers :
        /\ pc[w] = "done"
        /\ loc[w].op = "invoke"
        /\ loc[w].kind = "unreachable"
        /\ loc[w].code = 500
        /\ loc[w].up = 1

\* C21: an invocation whose upstream answered with a status outside 2xx is
\* answered with the upstream-error status 502, never with a success.
C21_UpstreamErrorIs502 ==
    \A w \in Workers :
        (pc[w] = "done" /\ loc[w].op = "invoke" /\ loc[w].kind = "non2xx")
        => /\ loc[w].code = 502
           /\ loc[w].up = 1

\* C22: every invocation whose upstream request is in flight returns: it is
\* answered, with a result or an error, whatever the upstream does.
C22_InvocationReturns ==
    \A w \in Workers : (pc[w] = "inv_upstream") ~> (pc[w] = "done")

\* C23: an invocation whose inbound request was cancelled with the upstream
\* call in flight has no request in flight any more and is answered with a
\* status of its own: neither a success nor the internal error 500.
C23_CancelledIsReported ==
    \A w \in Workers :
        (pc[w] = "done" /\ loc[w].kind = "canceled")
        => /\ loc[w].up = 1
           /\ loc[w].code # 200
           /\ loc[w].code # 500

\* C24: building the request of an invocation leaves the caller's parameter
\* document as it was passed, so that building it again from the same
\* document gives the same request.
C24_InvocationIsPure ==
    [][(sent.state = "none" /\ sent'.state # "none")
       => /\ call'.held = call.params
          /\ call'.tool = call.tool
          /\ createRequest(call'.tool, call'.held) = sent']_vars

\* worker w's update of a stored server is answered 200 in this step
UpdateReturns(w) ==
    /\ loc[w].op = "update"
    /\ pc[w] \in {"upd_persist", "upd_write"}
    /\ pc'[w] = "done"
    /\ loc'[w].code = 200
    /\ loc[w].id \in DOMAIN servers

\* C29: every update of a stored server that is answered 200 raises the
\* stored version by one, so that n successful updates leave version 1+n and
\* no two updates are given the same version.
C29_NoLostIncrement ==
    [][\A w \in Workers :
          UpdateReturns(w)
          => servers'[loc[w].id].version = servers[loc[w].id].version + 1]_vars

\* C26: an update that is answered 200 leaves the stored status of its server
\* as it was; the status changes in steps of Activate and Deactivate only.
C26_StatusOnlyByLifecycle ==
    [][\A id \in (DOMAIN servers) \cap (DOMAIN servers') :
          servers'[id].status # servers[id].status
          => \E w \in Workers :
                /\ loc[w].id = id
                /\ pc[w] \in {"act_status", "deact_status"}
                /\ pc'[w] = "done"]_vars

\* C27: HandleToolRequest of an invocation that passed the gates finds in the
\* registry the version of the server the gates checked (loc.ver), and finds
\* the tool in it: it never fails with tool-not-found.
C27_ExecutesGatedVersion ==
    [][\A w \in Workers :
          (pc[w] = "inv_handle" /\ pc'[w] \in {"inv_upstream", "done"})
          => /\ loc'[w].kind # "tool_not_found"
             /\ loc[w].id \in DOMAIN registry
                => registry[loc[w].id].version = loc[w].ver]_vars

\* C28: a server that is not stored (deleted, its registry entry left behind
\* or not) cannot be read in any version, and a discovery or an invocation
\* that starts is answered 404 with no upstream request if it names the id
\* of no stored server or the name of none; one that is not refused at once
\* is about a stored server.
C28_DeletedIsUnreachable ==
    [][/\ \A id \in ServerIds \ DOMAIN servers :
            /\ GetByID(id) = << >>
            /\ GetVersions(id) = {}
            /\ \A v \in 1 .. MaxVersion : GetByVersion(id, v) = << >>
       /\ \A w \in Workers :
            (pc[w] = "idle" /\ loc'[w].op \in {"invoke", "discover"})
            => /\ (\/ loc'[w].route = "id" /\ loc'[w].id \notin DOMAIN servers
                   \/ /\ loc'[w].route \in {"name", "router"}
                      /\ \A id \in DOMAIN servers :
                           servers[id].name # loc'[w].name)
                  => /\ pc'[w] = "done"
                     /\ loc'[w].code = 404
                     /\ loc'[w].kind = "not_found"
                     /\ loc'[w].up = 0
               /\ pc'[w] # "done" => loc'[w].id \in DOMAIN servers]_vars

\* an invocation by id was answered 404 for a server that was deleted while
\* the registry still holds its active copy
C28_Witness ==
    \E w \in Workers :
        /\ pc[w] = "done"
        /\ loc[w].op = "invoke"
        /\ loc[w].route = "id"
        /\ loc[w].code = 404
        /\ loc[w].kind = "not_found"
        /\ loc[w].id \notin DOMAIN servers
        /\ loc[w].id \in DOMAIN registry
        /\ registry[loc[w].id].status = "active"
        /\ loc[w].tool \in registry[loc[w].id].allow

\* what the round trip is to keep of an endpoint
Kept(h) ==
    [method |-> h.method,
     path |-> h.path,
     headers |-> {h.headers[i] : i \in DOMAIN h.headers},
     parameters |-> {h.parameters[i] : i \in DOMAIN h.parameters},
     contentType |-> {h.requestBody[i].contentType : i \in DOMAIN h.requestBody},
     statusCodes |-> {h.responses[i].statusCode : i \in DOMAIN h.responses}]

\* C25: an endpoint exported to OpenAPI and imported from the exported
\* document comes back as one record with the method, the path, the headers,
\* the parameters, the content type of the request body and the status codes
\* of the responses of the original.
C25_RoundTrip ==
    openapi.state = "imported"
    => /\ Len(openapi.parsed) = 1
       /\ Kept(openapi.parsed[1]) = Kept(openapi.endpoint[1])

\* C30: an import answered 500 leaves none of the interfaces it saved, and an
\* import answered 201 has saved one interface for each path and method of
\* its document.
C30_ImportAllOrNothing ==
    [][\A w \in Workers :
          (pc[w] = "imp_save" /\ pc'[w] = "done")
          => /\ loc'[w].code = 500
                => \A i \in DOMAIN loc'[w].saved :
                      loc'[w].saved[i] \notin DOMAIN interfaces'
             /\ loc'[w].code = 201
                => \A o \in Operations(loc[w].spec[1]) :
                      Cardinality({i \in DOMAIN loc'[w].saved :
                          /\ loc'[w].saved[i] \in DOMAIN interfaces'
                          /\ interfaces'[loc'[w].saved[i]].path = o[1]
                          /\ interfaces'[loc'[w].saved[i]].method
                                = ToUpper(o[2])}) = 1]_vars

====
